---- MODULE Spec2Model ----
(***************************************************************************)
(* Model of src/mcPrd.h: the four Monte-Carlo products European,           *)
(* Europeans, UOC and ContingentBond (constructors and payoffs).           *)
(*                                                                         *)
(* Time is counted in ticks of 10^-9 year, so that the two tolerances of   *)
(* the source, ONE_HOUR = 0.000114469 and ONE_DAY = 0.003773585, are the   *)
(* integers 114469 and 3773585.  Values of the numeric type T (and of      *)
(* double) are exact rationals <<n, d>> in lowest terms with d > 0; the    *)
(* IEEE results of a division by zero are <<1, 0>> (+inf), <<-1, 0>>       *)
(* (-inf) and <<0, 0>> (NaN).  Sequences are 1-based: index i of the       *)
(* source is index i + 1 here.                                             *)
(***************************************************************************)
EXTENDS Integers, Sequences, FiniteSets, TLC

VARIABLES systemTime, pc, t, args, prod, call

vars == <<systemTime, pc, t, args, prod, call>>

(***************************************************************************)
(* Bounds of the model.                                                    *)
(***************************************************************************)
\* Largest number of whole monitoring / payment periods before maturity.
MaxPeriods == 2
\* Largest number of maturities in the map given to Europeans.
MaxMaturities == 2

(***************************************************************************)
(* Constants of the source, in ticks.                                      *)
(***************************************************************************)
ONE_HOUR == 114469
ONE_DAY == 3773585

TicksPerYear == 10 ^ 9
\* the period of the schedules of the model: a tenth of a year
Period == TicksPerYear \div 10

(***************************************************************************)
(* Arithmetic of double / T.                                               *)
(***************************************************************************)
Abs(n) == IF n < 0 THEN -n ELSE n

Sign(n) == IF n < 0 THEN -1 ELSE IF n > 0 THEN 1 ELSE 0

RECURSIVE GCD(_, _)
GCD(a, b) == IF b = 0 THEN a ELSE GCD(b, a % b)

Norm(n, d) ==
    IF d = 0 THEN <<Sign(n), 0>>
    ELSE LET g == GCD(Abs(n), Abs(d))
             s == IF d < 0 THEN -1 ELSE 1
         IN  <<(s * n) \div g, (s * d) \div g>>

R(n) == <<n, 1>>
Q(n, d) == Norm(n, d)
Zero == R(0)
One == R(1)
NaN == <<0, 0>>

IsNaN(x) == x = NaN
IsFinite(x) == x[2] # 0

RNeg(x) == <<-x[1], x[2]>>

\* (the finite case goes through the least common denominator, which keeps
\*  the intermediate integers small)
RAdd(x, y) ==
    IF x[2] = 0 /\ y[2] = 0
    THEN IF x = y THEN x ELSE NaN
    ELSE IF x[2] = 0 \/ y[2] = 0
    THEN Norm(x[1] * y[2] + y[1] * x[2], 0)
    ELSE LET g == GCD(x[2], y[2])
         IN  Norm(x[1] * (y[2] \div g) + y[1] * (x[2] \div g),
                  x[2] * (y[2] \div g))

RSub(x, y) == RAdd(x, RNeg(y))

RMul(x, y) == Norm(x[1] * y[1], x[2] * y[2])

RDiv(x, y) ==
    LET s == IF y[1] < 0 THEN -1 ELSE 1
    IN  Norm(s * x[1] * y[2], s * x[2] * y[1])

\* operator< : false as soon as one side is NaN
RLess(x, y) ==
    /\ ~IsNaN(x)
    /\ ~IsNaN(y)
    /\ IF x[2] = 0 /\ y[2] = 0 THEN x[1] < y[1]
       ELSE x[1] * y[2] < y[1] * x[2]

RLeq(x, y) == RLess(x, y) \/ (x = y /\ ~IsNaN(x))

\* std::max(a, b) == (a < b) ? b : a
RMax(a, b) == IF RLess(a, b) THEN b ELSE a

(***************************************************************************)
(* ostream << fixed, precision(2): the value rounded to hundredths (the    *)
(* exact value, ties to even), given as a number of hundredths.            *)
(***************************************************************************)
RoundHalfEven(n, d) ==
    LET q == n \div d
        r == n % d
    IN  IF 2 * r < d THEN q
        ELSE IF 2 * r > d THEN q + 1
        ELSE IF q % 2 = 0 THEN q ELSE q + 1

Fixed2(x) == RoundHalfEven(100 * x[1], x[2])

Fixed2Time(time) == RoundHalfEven(time, TicksPerYear \div 100)

(***************************************************************************)
(* Sequences.                                                              *)
(***************************************************************************)
Range(s) == {s[i] : i \in DOMAIN s}

Last(s) == s[Len(s)]

RECURSIVE SumLens(_, _)
\* total length of the first n sequences of ss
SumLens(ss, n) == IF n = 0 THEN 0 ELSE SumLens(ss, n - 1) + Len(ss[n])

RECURSIVE Flatten(_)
Flatten(ss) == IF ss = <<>> THEN <<>> ELSE Head(ss) \o Flatten(Tail(ss))

RECURSIVE SortedSeq(_)
\* the elements of a finite set of integers, ascending
SortedSeq(S) ==
    IF S = {} THEN <<>>
    ELSE LET m == CHOOSE x \in S : \A y \in S : x <= y
         IN  <<m>> \o SortedSeq(S \ {m})

StrictlyIncreasing(s) == \A i \in 1..(Len(s) - 1) : s[i] < s[i + 1]

(***************************************************************************)
(* SimulDef (dataline entry) and Sample (path entry).                      *)
(***************************************************************************)
SimulDef(num, fwds, discs, libs) ==
    [numeraire |-> num, forwardMats |-> fwds, discountMats |-> discs,
     liborDefs |-> libs]

RateDef(start, end, curve) == <<start, end, curve>>

Sample(num, fwds, discs, libs) ==
    [numeraire |-> num, forwards |-> fwds, discounts |-> discs, libors |-> libs]

\* The value of a field of a Sample that the engine was not asked to fill.
Unset == <<0, -1>>

(***************************************************************************)
(* The product object.  One record shape serves the four classes; a class  *)
(* uses the members it declares and leaves the others at their blank.      *)
(***************************************************************************)
NoProduct ==
    [kind |-> "none",
     myStrike |-> Zero, myBarrier |-> Zero, myCpn |-> Zero, mySmooth |-> Zero,
     myExerciseDate |-> 0, mySettlementDate |-> 0, myMaturity |-> 0,
     myMaturities |-> <<>>, myStrikes |-> <<>>,
     myTimeline |-> <<>>, myDataline |-> <<>>, myLabels |-> <<>>, myDt |-> <<>>]

\* the arguments of the last constructor call
NoArgs ==
    [kind |-> "none", strike |-> Zero, barrier |-> Zero, cpn |-> Zero,
     smooth |-> Zero, exerciseDate |-> 0, settlementDate |-> 0, maturity |-> 0,
     freq |-> 0, options |-> <<>>]

NoCall ==
    [status |-> "none", path |-> <<>>, before |-> <<>>, payoffs |-> <<>>,
     written |-> {}, reads |-> {}, alive |-> One, digitals |-> <<>>]

\* timeline(): Europeans returns myMaturities, the others myTimeline
timeline(p) == IF p.kind = "Europeans" THEN p.myMaturities ELSE p.myTimeline

dataline(p) == p.myDataline

payoffLabels(p) == p.myLabels

(***************************************************************************)
(* European                                                                *)
(***************************************************************************)
EuropeanLabel(strike, exerciseDate, settlementDate) ==
    IF settlementDate = exerciseDate
    THEN <<"call", Fixed2(strike), Fixed2Time(exerciseDate)>>
    ELSE <<"call", Fixed2(strike), Fixed2Time(exerciseDate),
           Fixed2Time(settlementDate)>>

EuropeanCtor(strike, exerciseDate, settlementDate) ==
    [NoProduct EXCEPT
        !.kind = "European",
        !.myStrike = strike,
        !.myExerciseDate = exerciseDate,
        !.mySettlementDate = settlementDate,
        !.myTimeline = <<exerciseDate>>,
        !.myDataline = <<SimulDef(TRUE, <<settlementDate>>, <<settlementDate>>, <<>>)>>,
        !.myLabels = <<EuropeanLabel(strike, exerciseDate, settlementDate)>>]

\* payoffs[0] = max(path[0].forwards[0] - myStrike, 0.0)
\*                  * path[0].discounts[0] / path[0].numeraire
EuropeanPayoffs(p, path, payoffs) ==
    [payoffs EXCEPT ![1] =
        RDiv(RMul(RMax(RSub(path[1].forwards[1], p.myStrike), Zero),
                  path[1].discounts[1]),
             path[1].numeraire)]

\* what the call reads from the path: <<node, observable, index>>
EuropeanReads(p, path) ==
    {<<1, "forward", 1>>, <<1, "discount", 1>>, <<1, "numeraire", 1>>}

EuropeanWrites(p, path) == {1}

\* every operator[] of the call is inside its vector
EuropeanInRange(p, path, payoffs) ==
    /\ Len(payoffs) >= 1
    /\ Len(path) >= 1
    /\ Len(path[1].forwards) >= 1
    /\ Len(path[1].discounts) >= 1

(***************************************************************************)
(* Europeans                                                               *)
(***************************************************************************)
\* std::map iterates its keys in ascending order
MapKeys(options) == SortedSeq(DOMAIN options)

EuropeansLabel(maturity, strike) == <<"call", Fixed2Time(maturity), Fixed2(strike)>>

\* for (option : options) for (strike : option.second) myLabels.push_back(...)
EuropeansLabels(options) ==
    LET keys == MapKeys(options)
    IN  Flatten([i \in 1..Len(keys) |->
                    [j \in 1..Len(options[keys[i]]) |->
                        EuropeansLabel(keys[i], options[keys[i]][j])]])

EuropeansCtor(options) ==
    LET keys == MapKeys(options)
        n == Cardinality(DOMAIN options)
    IN  [NoProduct EXCEPT
            !.kind = "Europeans",
            !.myMaturities = keys,
            !.myStrikes = [i \in 1..Len(keys) |-> options[keys[i]]],
            !.myDataline = [i \in 1..n |-> SimulDef(TRUE, <<keys[i]>>, <<>>, <<>>)],
            !.myLabels = EuropeansLabels(options)]

\* transform(strikes.begin(), strikes.end(), payoffIt, k -> max(spot - k, 0.0) / num)
EuropeansTransform(strikes, payoffs, payoffIt, spot, num) ==
    [k \in DOMAIN payoffs |->
        IF k >= payoffIt /\ k < payoffIt + Len(strikes)
        THEN RDiv(RMax(RSub(spot, strikes[k - payoffIt + 1]), Zero), num)
        ELSE payoffs[k]]

\* payoffIt += myStrikes[i].size()
EuropeansAdvanceStale(payoffIt, size) == payoffIt

EuropeansAdvance(payoffIt, size) == payoffIt + size

RECURSIVE EuropeansLoop(_, _, _, _, _)
EuropeansLoop(p, path, payoffs, i, payoffIt) ==
    IF i > Len(p.myMaturities) THEN payoffs
    ELSE EuropeansLoop(p, path,
            EuropeansTransform(p.myStrikes[i], payoffs, payoffIt,
                               path[i].forwards[1], path[i].numeraire),
            i + 1,
            EuropeansAdvance(payoffIt, Len(p.myStrikes[i])))

EuropeansPayoffs(p, path, payoffs) == EuropeansLoop(p, path, payoffs, 1, 1)

EuropeansReads(p, path) ==
    UNION {{<<i, "forward", 1>>, <<i, "numeraire", 1>>} : i \in 1..Len(p.myMaturities)}

EuropeansWrites(p, path) == 1..SumLens(p.myStrikes, Len(p.myStrikes))

EuropeansInRange(p, path, payoffs) ==
    /\ Len(path) >= Len(p.myMaturities)
    /\ \A i \in 1..Len(p.myMaturities) : Len(path[i].forwards) >= 1
    /\ Len(payoffs) >= SumLens(p.myStrikes, Len(p.myStrikes))

(***************************************************************************)
(* UOC                                                                     *)
(***************************************************************************)
\* myLabels[1], then myLabels[0] written from the same stream
UOCLabels(strike, barrier, maturity, monitorFreq, smooth) ==
    LET vanilla == <<"call", Fixed2Time(maturity), Fixed2(strike)>>
    IN  <<vanilla \o <<"up and out", Fixed2(barrier), "monitoring freq",
                       Fixed2Time(monitorFreq), "smooth", Fixed2(smooth)>>,
          vanilla>>

\* the members set by the initializer list and the first push_back
UOCBegin(strike, barrier, maturity, smooth, now) ==
    [NoProduct EXCEPT
        !.kind = "UOC",
        !.myStrike = strike,
        !.myBarrier = barrier,
        !.myMaturity = maturity,
        !.mySmooth = smooth,
        !.myLabels = <<<<>>, <<>>>>,
        !.myTimeline = <<now>>]

\* while (myMaturity - t > ONE_HOUR)
UOCContinueInclusive(maturity, time) == maturity - time >= ONE_HOUR

UOCContinue(maturity, time) == maturity - time > ONE_HOUR

\* Numeraire needed only on last step; spot(t) needed on every step
UOCDatalineAllNumeraire(tl) ==
    [i \in 1..Len(tl) |-> SimulDef(TRUE, <<tl[i]>>, <<>>, <<>>)]

UOCDataline(tl) ==
    [i \in 1..Len(tl) |-> SimulDef(i = Len(tl), <<tl[i]>>, <<>>, <<>>)]

\* the smoothed knock-out factor of one node that is not a full breach
UOCRampNoBand(alive, forward, barrier, smooth) == alive

UOCRamp(alive, forward, barrier, smooth) ==
    IF RLess(RSub(barrier, smooth), forward)
    THEN RMul(alive, RDiv(RSub(RAdd(barrier, smooth), forward),
                          RMul(R(2), smooth)))
    ELSE alive

RECURSIVE UOCWalk(_, _, _, _, _)
\* for (scen : path): the alive factor and the last node visited
UOCWalk(p, path, smooth, i, alive) ==
    IF i > Len(path) THEN [alive |-> alive, last |-> Len(path)]
    ELSE IF RLess(RAdd(p.myBarrier, smooth), path[i].forwards[1])
         THEN [alive |-> Zero, last |-> i]
         ELSE UOCWalk(p, path, smooth, i + 1,
                      UOCRamp(alive, path[i].forwards[1], p.myBarrier, smooth))

\* smooth = convert<double>(path[0].forwards[0] * mySmooth)
UOCSmooth(p, path) == RMul(path[1].forwards[1], p.mySmooth)

UOCAlive(p, path) == UOCWalk(p, path, UOCSmooth(p, path), 1, One)

\* payoffs[1] = max(path.back().forwards[0] - myStrike, 0.0) / path.back().numeraire
UOCVanillaFirstNode(p, path) ==
    RDiv(RMax(RSub(path[1].forwards[1], p.myStrike), Zero), Last(path).numeraire)

UOCVanilla(p, path) ==
    RDiv(RMax(RSub(Last(path).forwards[1], p.myStrike), Zero), Last(path).numeraire)

UOCPayoffs(p, path, payoffs) ==
    LET vanilla == UOCVanilla(p, path)
    IN  [payoffs EXCEPT ![2] = vanilla,
                        ![1] = RMul(UOCAlive(p, path).alive, vanilla)]

UOCReads(p, path) ==
    {<<i, "forward", 1>> : i \in 1..UOCAlive(p, path).last}
        \cup {<<Len(path), "forward", 1>>, <<Len(path), "numeraire", 1>>}

UOCWrites(p, path) == {1, 2}

UOCInRange(p, path, payoffs) ==
    /\ Len(path) >= 1
    /\ \A i \in 1..Len(path) : Len(path[i].forwards) >= 1
    /\ Len(payoffs) >= 2

(***************************************************************************)
(* ContingentBond                                                          *)
(***************************************************************************)
\* a difference of two Times used as a double: the year fraction
Years(ticks) == Q(ticks, TicksPerYear)

CBLabel(maturity, cpn) == <<"contingent bond", Fixed2Time(maturity), Fixed2(cpn)>>

\* the members set by the initializer list and the first push_back
CBBegin(maturity, cpn, smooth, now) ==
    [NoProduct EXCEPT
        !.kind = "ContingentBond",
        !.myMaturity = maturity,
        !.myCpn = cpn,
        !.mySmooth = smooth,
        !.myLabels = <<<<>>>>,
        !.myTimeline = <<now>>]

\* while (myMaturity - t > ONE_DAY)
CBContinue(maturity, time) == maturity - time > ONE_DAY

\* spot on every step, libor(Ti, Ti+1) on every step but the last,
\* numeraire on every step but the first
CBDataline(tl) ==
    [i \in 1..Len(tl) |->
        SimulDef(i > 1, <<tl[i]>>, <<>>,
                 IF i < Len(tl) THEN <<RateDef(tl[i], tl[i + 1], "libor")>>
                 ELSE <<>>)]

\* the smoothed digital of one period
CBDigital(s0, s1, smooth) ==
    IF RLess(smooth, RSub(s1, s0)) THEN One
    ELSE IF RLess(RSub(s1, s0), RNeg(smooth)) THEN Zero
    ELSE RDiv(RAdd(RSub(s1, s0), smooth), RMul(R(2), smooth))

\* smooth = convert<double>(path[0].forwards[0] * mySmooth)
CBSmooth(p, path) == RMul(path[1].forwards[1], p.mySmooth)

\* the digitals of the periods 0 .. path.size() - 2
CBDigitals(p, path) ==
    [i \in 1..(Len(path) - 1) |->
        CBDigital(path[i].forwards[1], path[i + 1].forwards[1], CBSmooth(p, path))]

\* payoffs[0] += digital * (start.libors[0] + myCpn) * myDt[i] / end.numeraire
CBCoupon(p, path, i) ==
    RDiv(RMul(RMul(CBDigitals(p, path)[i], RAdd(path[i].libors[1], p.myCpn)),
              Years(p.myDt[i])),
         path[i + 1].numeraire)

RECURSIVE CBAccrue(_, _, _, _)
\* the running payoff after the periods i .. path.size() - 2
CBAccrue(p, path, i, acc) ==
    IF i > Len(path) - 1 THEN acc
    ELSE CBAccrue(p, path, i + 1, RAdd(acc, CBCoupon(p, path, i)))

\* payoffs[0] = 0
CBResetKeep(before) == before

CBReset(before) == Zero

CBPayoffs(p, path, payoffs) ==
    [payoffs EXCEPT ![1] =
        RAdd(CBAccrue(p, path, 1, CBReset(payoffs[1])),
             RDiv(One, Last(path).numeraire))]

CBReads(p, path) ==
    {<<i, "forward", 1>> : i \in 1..Len(path)}
        \cup {<<i, "libor", 1>> : i \in 1..(Len(path) - 1)}
        \cup {<<i + 1, "numeraire", 1>> : i \in 1..(Len(path) - 1)}
        \cup {<<Len(path), "numeraire", 1>>}

CBWrites(p, path) == {1}

CBInRange(p, path, payoffs) ==
    /\ Len(path) >= 1
    /\ Len(payoffs) >= 1
    /\ Len(path[1].forwards) >= 1
    /\ Len(path) - 1 <= Len(p.myDt)
    /\ \A i \in 1..(Len(path) - 1) :
            /\ Len(path[i].libors) >= 1
            /\ Len(path[i + 1].forwards) >= 1

(***************************************************************************)
(* payoffs() of the product at hand, by virtual dispatch.                  *)
(***************************************************************************)
PayoffsOf(p, path, payoffs) ==
    CASE p.kind = "European" -> EuropeanPayoffs(p, path, payoffs)
      [] p.kind = "Europeans" -> EuropeansPayoffs(p, path, payoffs)
      [] p.kind = "UOC" -> UOCPayoffs(p, path, payoffs)
      [] p.kind = "ContingentBond" -> CBPayoffs(p, path, payoffs)

ReadsOf(p, path) ==
    CASE p.kind = "European" -> EuropeanReads(p, path)
      [] p.kind = "Europeans" -> EuropeansReads(p, path)
      [] p.kind = "UOC" -> UOCReads(p, path)
      [] p.kind = "ContingentBond" -> CBReads(p, path)

WritesOf(p, path) ==
    CASE p.kind = "European" -> EuropeanWrites(p, path)
      [] p.kind = "Europeans" -> EuropeansWrites(p, path)
      [] p.kind = "UOC" -> UOCWrites(p, path)
      [] p.kind = "ContingentBond" -> CBWrites(p, path)

InRange(p, path, payoffs) ==
    CASE p.kind = "European" -> EuropeanInRange(p, path, payoffs)
      [] p.kind = "Europeans" -> EuropeansInRange(p, path, payoffs)
      [] p.kind = "UOC" -> UOCInRange(p, path, payoffs)
      [] p.kind = "ContingentBond" -> CBInRange(p, path, payoffs)

\* The call that stays inside its vectors runs to completion.
CompletedCall(p, path, before) ==
    [status |-> "ok",
     path |-> path,
     before |-> before,
     payoffs |-> PayoffsOf(p, path, before),
     written |-> WritesOf(p, path),
     reads |-> ReadsOf(p, path),
     alive |-> IF p.kind = "UOC" THEN UOCAlive(p, path).alive ELSE One,
     digitals |-> IF p.kind = "ContingentBond" THEN CBDigitals(p, path) ELSE <<>>]

\* The call that indexes a vector out of its range has undefined behaviour:
\* it may crash, or complete with whatever it found.
UndefinedCall(path, before, outcome) ==
    [NoCall EXCEPT !.status = outcome, !.path = path, !.before = before,
                   !.payoffs = before]

(***************************************************************************)
(* Inputs.                                                                 *)
(***************************************************************************)
SystemTimes == {2 * ONE_DAY}

Strikes == {R(11)}
Barriers == {R(12)}
Coupons == {Q(1, 20)}
SmoothFractions == {Zero, Q(1, 5)}
Freqs == {-Period, 0, Period, 2 * Period}

\* maturities k periods after now, on the grid, a tolerance after it, one
\* tick more than a tolerance after it; and two that are not after now
Maturities(now, tol, more) ==
    {now - Period, now}
        \cup {now + k * Period + d : k \in 1..MaxPeriods, d \in {0, tol, tol + 1} \cup more}

\* around ONE_DAY, in whole 10^-5 years
NearDay == {ONE_DAY - 3585, ONE_DAY + 6415}

ExerciseDates(now) == {now - Period, now, now + Period}
SettlementDates(exerciseDate) == {exerciseDate - Period, exerciseDate, exerciseDate + Period}

StrikeLists == {<<>>, <<R(11)>>, <<R(13), R(9)>>}
EuropeansDates(now) == {now + k * Period : k \in 1..MaxMaturities}
OptionMaps(now) == UNION {[D -> StrikeLists] : D \in SUBSET EuropeansDates(now)}

\* forwards of a node: the first node of a UOC or ContingentBond path sets
\* the smoothing width
Forwards(kind, i, all) ==
    IF ~all THEN {R(12)}
    ELSE IF kind \in {"European", "Europeans"} THEN {R(10), R(12)}
    ELSE IF i = 1 THEN {Zero, R(10)}
    ELSE IF kind = "UOC" THEN {R(10), R(12), R(14), R(15)}
    ELSE {R(10), R(12), R(14)}

Numeraires(all) == IF all THEN {R(1), R(2)} ELSE {R(2)}
Discounts == {One}
Libors == {Q(1, 20)}

\* the samples an engine can return for one dataline entry
Samples(def, fwds, nums) ==
    {Sample(n, f, d, l) :
        n \in (IF def.numeraire THEN nums ELSE {Unset}),
        f \in (IF def.forwardMats = <<>> THEN {<<>>} ELSE {<<x>> : x \in fwds}),
        d \in (IF def.discountMats = <<>> THEN {<<>>} ELSE {<<x>> : x \in Discounts}),
        l \in (IF def.liborDefs = <<>> THEN {<<>>} ELSE {<<x>> : x \in Libors})}

RECURSIVE PathsUpTo(_, _, _)
\* the paths over the first n dataline entries of p
PathsUpTo(p, n, all) ==
    IF n = 0 THEN {<<>>}
    ELSE {Append(s, e) :
            s \in PathsUpTo(p, n - 1, all),
            e \in Samples(p.myDataline[n], Forwards(p.kind, n, all), Numeraires(all))}

\* the paths index-aligned with the timeline
ValidPaths(p) == PathsUpTo(p, Len(p.myDataline), TRUE)

\* a sample with every observable filled
FullSample == Sample(R(2), <<R(12)>>, <<One>>, <<Q(1, 20)>>)

\* one path of the right length, one node short, and one node long
ProbePaths(p) ==
    LET ps == PathsUpTo(p, Len(p.myDataline), FALSE)
    IN  ps \cup {SubSeq(s, 1, Len(s) - 1) : s \in {x \in ps : Len(x) > 0}}
           \cup {Append(s, FullSample) : s \in ps}

Garbage == {Zero, R(7)}

Filled(m, g) == [i \in 1..m |-> g]

\* buffers of the width of payoffLabels()
ValidBuffers(p) == {Filled(Len(p.myLabels), g) : g \in Garbage}

\* buffers of that width, one slot short, and one slot long
ProbeBuffers(p) ==
    {Filled(m, R(7)) :
        m \in {Len(p.myLabels) - 1, Len(p.myLabels), Len(p.myLabels) + 1} \cap Nat}

\* The coverages of a ContingentBond enter its payoff as year fractions;
\* the model evaluates payoffs where they are whole 10^-5 years.
CoverageFits(p) == \A i \in DOMAIN p.myDt : p.myDt[i] % 10000 = 0

CallInputs(p) ==
    (ValidPaths(p) \X ValidBuffers(p)) \cup (ProbePaths(p) \X ProbeBuffers(p))

\* the schedule loop of the model stops growing the timeline here
TimelineCap == MaxPeriods + 3

(***************************************************************************)
(* Actions.                                                                *)
(***************************************************************************)
Init ==
    /\ systemTime \in SystemTimes
    /\ pc = "idle"
    /\ t = 0
    /\ args = NoArgs
    /\ prod = NoProduct
    /\ call = NoCall

\* a run of the model builds one product and evaluates it
Ready == pc = "idle"

NewEuropean ==
    /\ Ready
    /\ \E strike \in Strikes, exerciseDate \in ExerciseDates(systemTime) :
        \E settlementDate \in SettlementDates(exerciseDate) :
            /\ prod' = EuropeanCtor(strike, exerciseDate, settlementDate)
            /\ args' = [NoArgs EXCEPT !.kind = "European", !.strike = strike,
                                      !.exerciseDate = exerciseDate,
                                      !.settlementDate = settlementDate]
    /\ pc' = "built"
    /\ call' = NoCall
    /\ UNCHANGED <<systemTime, t>>

NewEuropeans ==
    /\ Ready
    /\ \E options \in OptionMaps(systemTime) :
            /\ prod' = EuropeansCtor(options)
            /\ args' = [NoArgs EXCEPT !.kind = "Europeans", !.options = options]
    /\ pc' = "built"
    /\ call' = NoCall
    /\ UNCHANGED <<systemTime, t>>

\* UOC::UOC up to the schedule loop
NewUOC ==
    /\ Ready
    /\ \E strike \in Strikes, barrier \in Barriers, monitorFreq \in Freqs,
          maturity \in Maturities(systemTime, ONE_HOUR, {}),
          smooth \in SmoothFractions :
            /\ prod' = UOCBegin(strike, barrier, maturity, smooth, systemTime)
            /\ t' = systemTime + monitorFreq
            /\ args' = [NoArgs EXCEPT !.kind = "UOC", !.strike = strike,
                                      !.barrier = barrier, !.maturity = maturity,
                                      !.freq = monitorFreq, !.smooth = smooth]
    /\ pc' = "UOC_loop"
    /\ call' = NoCall
    /\ UNCHANGED systemTime

\* while (myMaturity - t > ONE_HOUR) { myTimeline.push_back(t); t += monitorFreq; }
UOCLoop ==
    /\ pc = "UOC_loop"
    /\ UOCContinue(prod.myMaturity, t)
    /\ Len(prod.myTimeline) < TimelineCap
    /\ prod' = [prod EXCEPT !.myTimeline = Append(@, t)]
    /\ t' = t + args.freq
    /\ UNCHANGED <<systemTime, pc, args, call>>

\* the rest of UOC::UOC: maturity, dataline, labels
UOCFinish ==
    /\ pc = "UOC_loop"
    /\ ~UOCContinue(prod.myMaturity, t)
    /\ LET tl == Append(prod.myTimeline, prod.myMaturity)
       IN  prod' = [prod EXCEPT
                !.myTimeline = tl,
                !.myDataline = UOCDataline(tl),
                !.myLabels = UOCLabels(prod.myStrike, prod.myBarrier,
                                       prod.myMaturity, args.freq, prod.mySmooth)]
    /\ pc' = "built"
    /\ UNCHANGED <<systemTime, t, args, call>>

\* ContingentBond::ContingentBond up to the schedule loop
NewContingentBond ==
    /\ Ready
    /\ \E maturity \in Maturities(systemTime, ONE_DAY, NearDay), cpn \in Coupons,
          payFreq \in Freqs, smooth \in SmoothFractions :
            /\ prod' = CBBegin(maturity, cpn, smooth, systemTime)
            /\ t' = systemTime + payFreq
            /\ args' = [NoArgs EXCEPT !.kind = "ContingentBond", !.cpn = cpn,
                                      !.maturity = maturity, !.freq = payFreq,
                                      !.smooth = smooth]
    /\ pc' = "CB_loop"
    /\ call' = NoCall
    /\ UNCHANGED systemTime

\* while (myMaturity - t > ONE_DAY)
\* { myDt.push_back(t - myTimeline.back()); myTimeline.push_back(t); t += payFreq; }
CBLoop ==
    /\ pc = "CB_loop"
    /\ CBContinue(prod.myMaturity, t)
    /\ Len(prod.myTimeline) < TimelineCap
    /\ prod' = [prod EXCEPT !.myDt = Append(@, t - Last(prod.myTimeline)),
                            !.myTimeline = Append(@, t)]
    /\ t' = t + args.freq
    /\ UNCHANGED <<systemTime, pc, args, call>>

\* the rest of ContingentBond::ContingentBond: maturity, dataline, label
CBFinish ==
    /\ pc = "CB_loop"
    /\ ~CBContinue(prod.myMaturity, t)
    /\ LET tl == Append(prod.myTimeline, prod.myMaturity)
       IN  prod' = [prod EXCEPT
                !.myDt = Append(@, prod.myMaturity - Last(prod.myTimeline)),
                !.myTimeline = tl,
                !.myDataline = CBDataline(tl),
                !.myLabels = <<CBLabel(prod.myMaturity, prod.myCpn)>>]
    /\ pc' = "built"
    /\ UNCHANGED <<systemTime, t, args, call>>

\* the first call on a product takes any path and buffer; a later call takes
\* the buffer the previous call wrote, with the same path or with another
NextInputs(p, c) ==
    IF c.status = "none" THEN CallInputs(p)
    ELSE IF c.status = "ok"
    THEN {<<q, c.payoffs>> : q \in {c.path} \cup PathsUpTo(p, Len(p.myDataline), FALSE)}
    ELSE {}

\* payoffs(path, payoffs) on the product at hand
CallPayoffs ==
    /\ pc = "built"
    /\ CoverageFits(prod)
    /\ \E in \in NextInputs(prod, call) :
        IF InRange(prod, in[1], in[2])
        THEN call' = CompletedCall(prod, in[1], in[2])
        ELSE \E outcome \in {"crash", "ok"} :
                call' = UndefinedCall(in[1], in[2], outcome)
    /\ UNCHANGED <<systemTime, pc, t, args, prod>>

Next ==
    \/ NewEuropean
    \/ NewEuropeans
    \/ NewUOC
    \/ UOCLoop
    \/ UOCFinish
    \/ NewContingentBond
    \/ CBLoop
    \/ CBFinish
    \/ CallPayoffs

Spec == Init /\ [][Next]_vars

(***************************************************************************)
(* Properties.                                                             *)
(***************************************************************************)
Built == pc = "built"

\* a call whose path and buffer have the lengths the contract asks for
ContractCall ==
    /\ call.status # "none"
    /\ Len(call.path) = Len(timeline(prod))
    /\ Len(call.before) = Len(payoffLabels(prod))

Completed == Built /\ call.status = "ok" /\ ContractCall

\* the configuration errors of the constructor arguments
ConfigError ==
    CASE args.kind = "European" ->
            args.exerciseDate <= systemTime \/ args.settlementDate < args.exerciseDate
      [] args.kind = "Europeans" ->
            \/ DOMAIN args.options = {}
            \/ \E m \in DOMAIN args.options :
                    args.options[m] = <<>> \/ m <= systemTime
      [] args.kind \in {"UOC", "ContingentBond"} -> args.maturity <= systemTime
      [] OTHER -> FALSE

\* the constructor arguments hold no configuration error
ValidTerms == ~ConfigError

\* C1: a constructor given a configuration error (a date that is not after
\* systemTime, a settlement before the exercise, an empty map or an empty
\* strike list) yields no product, and no product has an empty or a
\* non-increasing timeline.
C1_ConfigErrorsRejected ==
    Built =>
        /\ ~ConfigError
        /\ timeline(prod) # <<>>
        /\ StrictlyIncreasing(timeline(prod))

\* C2: a call of payoffs whose path is not as long as the timeline, or whose
\* buffer is not as wide as payoffLabels(), never completes normally (stated
\* for the products whose terms hold no configuration error, and for the
\* calls that stay inside their vectors: the others have undefined
\* behaviour).
C2_MismatchFailsLoudly ==
    (/\ Built
     /\ ValidTerms
     /\ call.status # "none"
     /\ ~ContractCall
     /\ InRange(prod, call.path, call.before)) =>
        call.status # "ok"

Tolerance(kind) == IF kind = "UOC" THEN ONE_HOUR ELSE ONE_DAY

ScheduleCase ==
    /\ Built
    /\ prod.kind \in {"UOC", "ContingentBond"}
    /\ args.freq > 0
    /\ args.maturity > systemTime

\* C3: a UOC or ContingentBond built with a positive step and a maturity
\* after systemTime has a strictly increasing timeline from systemTime to
\* maturity; its interior nodes are systemTime + k * step for k = 1, 2, ...,
\* each more than the tolerance before maturity, and the next grid point,
\* the first within the tolerance of maturity or past it, is not a node; the
\* dataline is as long as the timeline, and myDt holds the differences of
\* consecutive nodes of a ContingentBond.
C3_Schedule ==
    ScheduleCase =>
        LET tl == prod.myTimeline
            n == Len(tl)
            tol == Tolerance(prod.kind)
        IN  /\ n >= 2
            /\ StrictlyIncreasing(tl)
            /\ tl[1] = systemTime
            /\ tl[n] = args.maturity
            /\ \A i \in 2..(n - 1) :
                    /\ tl[i] = systemTime + (i - 1) * args.freq
                    /\ args.maturity - tl[i] > tol
            /\ args.maturity - (systemTime + (n - 1) * args.freq) <= tol
            /\ Len(dataline(prod)) = n
            /\ prod.kind = "ContingentBond" =>
                    /\ Len(prod.myDt) = n - 1
                    /\ \A i \in 1..(n - 1) : prod.myDt[i] = tl[i + 1] - tl[i]

\* a grid point exactly one tolerance before maturity was left out, after
\* at least one interior node was put in
C3_Witness ==
    /\ ScheduleCase
    /\ Len(prod.myTimeline) >= 3
    /\ args.maturity - (systemTime + (Len(prod.myTimeline) - 1) * args.freq)
            = Tolerance(prod.kind)

\* a call that completed without leaving any of its vectors
DefinedCall ==
    /\ Built
    /\ call.status = "ok"
    /\ InRange(prod, call.path, call.before)

\* r(f): 1 up to B - w, the ramp (B + w - f) / (2w) up to B + w, 0 beyond
RampR(f, B, w) ==
    IF RLeq(f, RSub(B, w)) THEN One
    ELSE IF RLeq(f, RAdd(B, w)) THEN RDiv(RSub(RAdd(B, w), f), RMul(R(2), w))
    ELSE Zero

RECURSIVE RampProduct(_, _, _, _)
\* the product of r over the nodes i .. Len(path)
RampProduct(path, i, B, w) ==
    IF i > Len(path) THEN One
    ELSE RMul(RampR(path[i].forwards[1], B, w), RampProduct(path, i + 1, B, w))

\* exactly one node has forward v, every other node is at or below B - w
OnlyInBand(path, v, B, w) ==
    /\ Cardinality({i \in DOMAIN path : path[i].forwards[1] = v}) = 1
    /\ \A i \in DOMAIN path :
            path[i].forwards[1] # v => RLeq(path[i].forwards[1], RSub(B, w))

UOCCase == DefinedCall /\ prod.kind = "UOC"

\* C4: in UOC::payoffs with a smoothing half-width w > 0 the alive factor is
\* the product of r(f) over all nodes of the path, lies in [0, 1], is 1/2,
\* 1 and 0 for a path whose only forward in the band is B, B - w and B + w,
\* and payoffs[0] = alive * payoffs[1].
C4_SmoothedBarrier ==
    (UOCCase /\ RLess(Zero, UOCSmooth(prod, call.path))) =>
        LET w == UOCSmooth(prod, call.path)
            B == prod.myBarrier
        IN  /\ call.alive = RampProduct(call.path, 1, B, w)
            /\ RLeq(Zero, call.alive) /\ RLeq(call.alive, One)
            /\ OnlyInBand(call.path, B, B, w) => call.alive = Q(1, 2)
            /\ (\A i \in DOMAIN call.path :
                    RLeq(call.path[i].forwards[1], RSub(B, w))) => call.alive = One
            /\ OnlyInBand(call.path, RAdd(B, w), B, w) => call.alive = Zero
            /\ call.payoffs[1] = RMul(call.alive, call.payoffs[2])

\* a path breached at one node and inside the band at a later one, so that
\* the early break and the product are both at work
C4_Witness ==
    /\ UOCCase
    /\ RLess(Zero, UOCSmooth(prod, call.path))
    /\ \E i, j \in DOMAIN call.path :
            /\ i < j
            /\ RLess(RAdd(prod.myBarrier, UOCSmooth(prod, call.path)),
                     call.path[i].forwards[1])
            /\ call.path[j].forwards[1] = prod.myBarrier

SmoothWidth ==
    IF prod.kind = "UOC" THEN UOCSmooth(prod, call.path)
    ELSE CBSmooth(prod, call.path)

\* C5: with a smoothing width of exactly zero the products give the plain
\* valuation: UOC payoffs[0] is payoffs[1] when no forward exceeds the barrier
\* and 0 otherwise, and every ContingentBond digital is 1 when s1 >= s0 and 0
\* otherwise (stated for the products whose terms hold no configuration
\* error, on paths as long as the timeline).
C5_ZeroWidthIsPlain ==
    (Completed /\ ValidTerms /\ prod.kind \in {"UOC", "ContingentBond"} /\ SmoothWidth = Zero) =>
        /\ prod.kind = "UOC" =>
                call.payoffs[1] =
                    IF \E i \in DOMAIN call.path :
                            RLess(prod.myBarrier, call.path[i].forwards[1])
                    THEN Zero ELSE call.payoffs[2]
        /\ prod.kind = "ContingentBond" =>
                \A i \in DOMAIN call.digitals :
                    call.digitals[i] =
                        IF RLeq(call.path[i].forwards[1], call.path[i + 1].forwards[1])
                        THEN One ELSE Zero

\* C6: UOC payoffs[1] is the payoff of the European of the same strike,
\* exercised and settled at the UOC maturity, on the one-node path made of
\* the last node with a discount of 1: max(forward_last - strike, 0) /
\* numeraire_last.
C6_VanillaIsEuropean ==
    UOCCase =>
        LET last == Last(call.path)
            european == EuropeanCtor(prod.myStrike, prod.myMaturity, prod.myMaturity)
            node == Sample(last.numeraire, <<last.forwards[1]>>, <<One>>, <<>>)
        IN  /\ call.payoffs[2] = EuropeanPayoffs(european, <<node>>, <<Zero>>)[1]
            /\ call.payoffs[2] =
                    RDiv(RMax(RSub(last.forwards[1], prod.myStrike), Zero),
                         last.numeraire)

\* knocked out, in the money at the last node, and not at the first
C6_Witness ==
    /\ UOCCase
    /\ Len(call.path) >= 3
    /\ call.alive = Zero
    /\ call.payoffs[2] # Zero
    /\ call.path[1].forwards[1] # Last(call.path).forwards[1]
    /\ prod.mySmooth # Zero

RECURSIVE StrikesBefore(_, _, _)
\* the number of strikes of the maturities tl[1] .. tl[i - 1]
StrikesBefore(options, tl, i) ==
    IF i <= 1 THEN 0
    ELSE StrikesBefore(options, tl, i - 1) + Len(options[tl[i - 1]])

EuropeansCase == Built /\ prod.kind = "Europeans"

\* C7: the timeline of Europeans is the maturities of the map in ascending
\* order, there are as many labels as strikes, and the j-th strike k of the
\* i-th maturity has its label and its payoff max(forward_i - k, 0) /
\* numeraire_i at index (strikes of the maturities before i) + j; payoffs
\* writes exactly these slots.
C7_MaturityMajor ==
    EuropeansCase =>
        LET options == args.options
            tl == timeline(prod)
            total == StrikesBefore(options, tl, Len(tl) + 1)
        IN  /\ StrictlyIncreasing(tl)
            /\ Range(tl) = DOMAIN options
            /\ Len(payoffLabels(prod)) = total
            /\ \A i \in DOMAIN tl : \A j \in DOMAIN options[tl[i]] :
                    payoffLabels(prod)[StrikesBefore(options, tl, i) + j]
                        = EuropeansLabel(tl[i], options[tl[i]][j])
            /\ Completed =>
                    /\ call.written = 1..total
                    /\ Len(call.payoffs) = total
                    /\ \A i \in DOMAIN tl : \A j \in DOMAIN options[tl[i]] :
                            call.payoffs[StrikesBefore(options, tl, i) + j]
                                = RDiv(RMax(RSub(call.path[i].forwards[1],
                                                 options[tl[i]][j]), Zero),
                                       call.path[i].numeraire)

\* two strikes out of order at the first maturity, one at the second, all
\* three in the money
C7_Witness ==
    /\ EuropeansCase
    /\ Completed
    /\ Len(timeline(prod)) >= 2
    /\ prod.myStrikes[1] = <<R(13), R(9)>>
    /\ prod.myStrikes[2] = <<R(11)>>
    /\ call.path[1].forwards[1] # call.path[2].forwards[1]
    /\ call.payoffs[3] # Zero

\* what dataline() asks the engine for: <<node, observable, index>>
Requested(p) ==
    UNION {{<<i, "numeraire", 1>> : x \in {y \in {1} : p.myDataline[i].numeraire}}
            \cup {<<i, "forward", j>> : j \in DOMAIN p.myDataline[i].forwardMats}
            \cup {<<i, "discount", j>> : j \in DOMAIN p.myDataline[i].discountMats}
            \cup {<<i, "libor", j>> : j \in DOMAIN p.myDataline[i].liborDefs}
           : i \in DOMAIN p.myDataline}

\* the requests the claim lists for each product
ListedRequests(p) ==
    LET n == Len(timeline(p))
    IN  CASE p.kind = "European" ->
                {<<1, "numeraire", 1>>, <<1, "forward", 1>>, <<1, "discount", 1>>}
          [] p.kind = "Europeans" ->
                {<<i, "numeraire", 1>> : i \in 1..n} \cup {<<i, "forward", 1>> : i \in 1..n}
          [] p.kind = "UOC" ->
                {<<i, "forward", 1>> : i \in 1..n} \cup {<<n, "numeraire", 1>>}
          [] p.kind = "ContingentBond" ->
                {<<i, "forward", 1>> : i \in 1..n}
                    \cup {<<i, "libor", 1>> : i \in 1..(n - 1)}
                    \cup {<<i, "numeraire", 1>> : i \in 2..n}

C9_Pure ==
    [][(Built /\ Built' /\ call' # call) =>
            /\ prod' = prod
            /\ timeline(prod') = timeline(prod)
            /\ dataline(prod') = dataline(prod)
            /\ payoffLabels(prod') = payoffLabels(prod)
            /\ Completed' =>
                    PayoffsOf(prod', call'.path, Filled(Len(call'.before), R(3)))
                        = call'.payoffs]_vars

\* a ContingentBond evaluated again into the buffer its previous call wrote
C9_Witness ==
    /\ Completed
    /\ prod.kind = "ContingentBond"
    /\ call.before = call.payoffs
    /\ call.payoffs[1] # Zero
    /\ \E i \in DOMAIN call.digitals : call.digitals[i] # Zero

\* C10: construction of UOC and ContingentBond terminates for every maturity
\* and step: every pass of the schedule loop brings t strictly closer to
\* maturity, the distance the loop waits to see fall to the tolerance
\* (stated for the maturities after systemTime).
C10_ScheduleLoopTerminates ==
    [][(pc \in {"UOC_loop", "CB_loop"} /\ pc' = pc /\ ValidTerms) =>
            prod'.myMaturity - t' < prod.myMaturity - t]_vars

====
